---- MODULE Spec2Model ----
(***************************************************************************)
(* Request/response pipeline of go-utils: the single-request executors of  *)
(* pkg/api/utils (put, post, delete, getProject, ...), the legacy          *)
(* executors of pkg/utils (post, delete, get), the pagination drivers      *)
(* (GetAllProjects, GetAllProjectsWithContext, getEventsWithContext) and   *)
(* the retry driver GetEventsWithRetryWithContext.                         *)
(*                                                                         *)
(* Strings that the code inspects character by character (page cursors)    *)
(* are sequences of one-character strings.  A Go pointer or optional value *)
(* is a sequence of length 0 (nil) or 1.                                   *)
(***************************************************************************)
EXTENDS Integers, Sequences, FiniteSets, TLC

VARIABLES st, DefaultTransport, handler, heap, build, params, validation

vars == <<st, DefaultTransport, handler, heap, build, params, validation>>

(***************************************************************************)
(* Bounds of the model.                                                    *)
(***************************************************************************)
\* largest maxRetries a caller passes
MaxRetriesBound == 3
\* largest EventFilter.NumberOfPages a caller passes
MaxNumberOfPages == 2
\* largest numeric page cursor a server hands out
MaxCursor == 2
\* requests of one pagination run
MaxPageReqs == 3
\* calls of the transport builders on one heap
MaxBuilds == 2

Callers == {1, 2}

(***************************************************************************)
(* Strings as character sequences, strconv.Atoi.                           *)
(***************************************************************************)
DigitChars == <<"0", "1", "2", "3", "4", "5", "6", "7", "8", "9">>

DigitValue(ch) == (CHOOSE i \in 1..10 : DigitChars[i] = ch) - 1

IsDigit(ch) == \E i \in 1..10 : DigitChars[i] = ch

RECURSIVE DigitsValue(_)
DigitsValue(s) ==
    IF s = <<>> THEN 0
    ELSE 10 * DigitsValue(SubSeq(s, 1, Len(s) - 1)) + DigitValue(s[Len(s)])

\* strconv.Atoi with the error dropped (nextPageKeyInt, _ := strconv.Atoi(..)):
\* a syntax error yields 0.  Cursors of the model are short, so the range
\* error of Atoi (a saturated value) does not arise.
Atoi(s) ==
    IF s = <<>> THEN 0
    ELSE LET signed == s[1] \in {"+", "-"}
             digits == IF signed THEN Tail(s) ELSE s
         IN IF digits = <<>> \/ \E i \in 1..Len(digits) : ~IsDigit(digits[i])
            THEN 0
            ELSE IF s[1] = "-" THEN 0 - DigitsValue(digits) ELSE DigitsValue(digits)

\* strconv.Itoa for the non-negative numbers below 100 (how a server writes
\* a numeric cursor)
Itoa(n) ==
    IF n < 10 THEN <<DigitChars[n + 1]>>
    ELSE <<DigitChars[(n \div 10) + 1], DigitChars[(n % 10) + 1]>>

\* the page cursors a server may return
Cursors == {<<>>, <<"x">>} \cup {Itoa(n) : n \in 0..MaxCursor}

(***************************************************************************)
(* Response bodies.  A body is empty, not JSON, or a JSON object of which  *)
(* the fields the decoders look at are kept.                               *)
(***************************************************************************)
EmptyBody == [kind |-> "empty", message |-> <<>>, keptnContext |-> <<>>,
              items |-> <<>>, nextPageKey |-> <<>>]

GarbageBody == [EmptyBody EXCEPT !.kind = "garbage"]

\* {}
EmptyObject == [EmptyBody EXCEPT !.kind = "json"]

\* {"message": m}
ErrorEnvelope(m) == [EmptyObject EXCEPT !.message = <<m>>]

\* {"keptnContext": k}
ContextEnvelope(k) == [EmptyObject EXCEPT !.keptnContext = <<k>>]

\* {"events"/"projects": items, "nextPageKey": next}
PageEnvelope(items, next) == [EmptyObject EXCEPT !.items = items, !.nextPageKey = next]

\* len(body)
BodyLen(body) == IF body.kind = "empty" THEN 0 ELSE 1

ItemSeqs == {<<>>, <<1>>, <<2, 3>>}

\* the pages a server answers with: any items with a cursor that ends the
\* listing, and pages that announce a further page
PageBodies ==
    {PageEnvelope(items, next) : items \in ItemSeqs, next \in {<<>>, <<"0">>}}
        \cup {PageEnvelope(items, next) : items \in ItemSeqs \ {<<>>},
                                          next \in Cursors \ {<<>>, <<"0">>}}
        \cup {PageEnvelope(<<>>, <<"1">>)}

Bodies ==
    {EmptyBody, GarbageBody, EmptyObject, ErrorEnvelope("boom"), ErrorEnvelope("not found"),
     ContextEnvelope("ctx-1")}
        \cup {PageEnvelope(<<1>>, <<"0">>)}

StatusCodes == {199, 200, 201, 204, 205, 299, 300, 404, 500}

\* what the HTTP client hands back: a transport failure, a response whose body
\* cannot be read, or a response with status and body
Response(kind, status, body) == [kind |-> kind, status |-> status, body |-> body]

TransportFailure == Response("transport", 0, EmptyBody)

Responses ==
    {TransportFailure}
        \cup {Response("readfail", s, EmptyBody) : s \in {200, 500}}
        \cup {Response("ok", s, b) : s \in StatusCodes, b \in Bodies}

(***************************************************************************)
(* Errors.  An error message is kept structured instead of as text: kind   *)
(* says which format string built it, code and text are its arguments.     *)
(***************************************************************************)
Msg(kind, code, text) == [kind |-> kind, code |-> code, text |-> text]

\* err.Error() of a failed json.Unmarshal
DecodeFailure(body) ==
    IF body.kind = "empty" THEN Msg("decode", 0, "unexpected end of JSON input")
    ELSE Msg("decode", 0, "invalid character")

\* err.Error() + "\n" + "-----DETAILS-----" + string(body)
WithDetails(msg, body) == [msg EXCEPT !.kind = "decode+details", !.text = <<msg.text, body>>]

\* a failed client.Do: the cause is the context's error when the context was
\* cancelled, a network error otherwise
TransportError(ctxDone) ==
    IF ctxDone THEN Msg("transport", 0, "context canceled")
    ELSE Msg("transport", 0, "connection refused")

\* fmt.Sprintf("Received unexpected response: %d %s", resp.StatusCode, resp.Status)
UnexpectedResponse(status) == Msg("unexpected response", status, "status text")

\* fmt.Errorf("could not find matching event after %d x %s", maxRetries, retrySleepTime.String())
Exhausted(maxRetries, retrySleepTime) == Msg("exhausted", maxRetries, retrySleepTime)

buildErrorResponse(errorStr) == [Message |-> <<errorStr>>]

\* what a function returns, or that it did not return
Ret(val, err) == [pc |-> "done", val |-> val, err |-> err]

Panicked == [pc |-> "panic", val |-> <<>>, err |-> <<>>]

Fatal == [pc |-> "fatal", val |-> <<>>, err |-> <<>>]

(***************************************************************************)
(* Decoders of pkg/api/models (FromJSON = json.Unmarshal into the struct). *)
(***************************************************************************)
\* models.Error: Message is a *string, nil when the field is absent
ErrorFromJSON(body) ==
    IF body.kind = "json" THEN [err |-> <<>>, Message |-> body.message]
    ELSE [err |-> <<DecodeFailure(body)>>, Message |-> <<>>]

\* models.EventContext: KeptnContext is a *string
EventContextFromJSON(body) ==
    IF body.kind = "json" THEN [err |-> <<>>, KeptnContext |-> body.keptnContext]
    ELSE [err |-> <<DecodeFailure(body)>>, KeptnContext |-> <<>>]

\* models.Project
ProjectFromJSON(body) ==
    IF body.kind = "json" THEN [err |-> <<>>, Project |-> body]
    ELSE [err |-> <<DecodeFailure(body)>>, Project |-> body]

\* models.Projects and models.Events: the items and the NextPageKey string
PageFromJSON(body) ==
    IF body.kind = "json"
    THEN [err |-> <<>>, items |-> body.items, NextPageKey |-> body.nextPageKey]
    ELSE [err |-> <<DecodeFailure(body)>>, items |-> <<>>, NextPageKey |-> <<>>]

(***************************************************************************)
(* pkg/api/utils/apiServiceUtils.go                                        *)
(***************************************************************************)
\* variant: the status code is put into the message
handleErrStatusCode_withStatus(statusCode, body) ==
    LET respErr == ErrorFromJSON(body)
    IN IF respErr.err = <<>>
       THEN IF respErr.Message = <<>> THEN Panicked
            ELSE Ret(<<>>, <<Msg("message", statusCode, respErr.Message[1])>>)
       ELSE Ret(<<>>, <<Msg("status", statusCode, "")>>)

\* Dereferences respErr.Message whenever the body decodes: a nil Message (a
\* JSON body without the field) is a nil-pointer panic.
handleErrStatusCode(statusCode, body) ==
    LET respErr == ErrorFromJSON(body)
    IN IF respErr.err = <<>>
       THEN IF respErr.Message = <<>> THEN Panicked
            ELSE Ret(<<>>, <<Msg("message", 0, respErr.Message[1])>>)
       ELSE Ret(<<>>, <<Msg("status", statusCode, "")>>)

\* buildErrorResponse(handleErrStatusCode(..).Error())
ErrStatusResponse(statusCode, body) ==
    LET e == handleErrStatusCode(statusCode, body)
    IN IF e.pc = "panic" THEN Panicked ELSE Ret(<<>>, <<buildErrorResponse(e.err[1])>>)

\* variant: the write executors with the band of the read executors
WriteBand_upTo299(status) == status >= 200 /\ status < 300

\* resp.StatusCode >= 200 && resp.StatusCode <= 204
WriteBand(status) == status >= 200 /\ status <= 204

\* resp.StatusCode >= 200 && resp.StatusCode < 300
ReadBand(status) == status >= 200 /\ status < 300

\* the part all executors of this file share: client.Do and ioutil.ReadAll
\* fail with an error response
DoFailed(resp) == resp.kind # "ok"

DoError(resp) ==
    IF resp.kind = "transport" THEN Ret(<<>>, <<buildErrorResponse(TransportError(FALSE))>>)
    ELSE Ret(<<>>, <<buildErrorResponse(Msg("read", 0, "unexpected EOF"))>>)

putWithEventContext(resp) ==
    IF DoFailed(resp) THEN DoError(resp)
    ELSE IF WriteBand(resp.status)
    THEN IF BodyLen(resp.body) > 0
         THEN LET eventContext == EventContextFromJSON(resp.body)
              IN IF eventContext.err # <<>>
                 THEN Ret(<<>>, <<buildErrorResponse(WithDetails(eventContext.err[1], resp.body))>>)
                 ELSE Ret(<<[KeptnContext |-> eventContext.KeptnContext]>>, <<>>)
         ELSE Ret(<<>>, <<>>)
    ELSE IF BodyLen(resp.body) > 0 THEN ErrStatusResponse(resp.status, resp.body)
    ELSE Ret(<<>>, <<buildErrorResponse(UnexpectedResponse(resp.status))>>)

put(resp) ==
    IF DoFailed(resp) THEN DoError(resp)
    ELSE IF WriteBand(resp.status)
    THEN IF BodyLen(resp.body) > 0 THEN Ret(<<resp.body>>, <<>>) ELSE Ret(<<>>, <<>>)
    ELSE IF BodyLen(resp.body) > 0 THEN ErrStatusResponse(resp.status, resp.body)
    ELSE Ret(<<>>, <<buildErrorResponse(UnexpectedResponse(resp.status))>>)

postWithEventContext(resp) ==
    IF DoFailed(resp) THEN DoError(resp)
    ELSE IF WriteBand(resp.status)
    THEN IF BodyLen(resp.body) > 0
         THEN LET eventContext == EventContextFromJSON(resp.body)
              IN IF eventContext.err # <<>>
                 THEN Ret(<<>>, <<buildErrorResponse(WithDetails(eventContext.err[1], resp.body))>>)
                 ELSE Ret(<<[KeptnContext |-> eventContext.KeptnContext]>>, <<>>)
         ELSE Ret(<<>>, <<>>)
    ELSE IF BodyLen(resp.body) > 0 THEN ErrStatusResponse(resp.status, resp.body)
    ELSE Ret(<<>>, <<buildErrorResponse(UnexpectedResponse(resp.status))>>)

post(resp) ==
    IF DoFailed(resp) THEN DoError(resp)
    ELSE IF WriteBand(resp.status)
    THEN IF BodyLen(resp.body) > 0 THEN Ret(<<resp.body>>, <<>>) ELSE Ret(<<>>, <<>>)
    ELSE IF BodyLen(resp.body) > 0 THEN ErrStatusResponse(resp.status, resp.body)
    ELSE Ret(<<>>, <<buildErrorResponse(UnexpectedResponse(resp.status))>>)

deleteWithEventContext(resp) ==
    IF DoFailed(resp) THEN DoError(resp)
    ELSE IF ReadBand(resp.status)
    THEN IF BodyLen(resp.body) > 0
         THEN LET eventContext == EventContextFromJSON(resp.body)
              IN IF eventContext.err # <<>>
                 THEN Ret(<<>>, <<buildErrorResponse(WithDetails(eventContext.err[1], resp.body))>>)
                 ELSE Ret(<<[KeptnContext |-> eventContext.KeptnContext]>>, <<>>)
         ELSE Ret(<<>>, <<>>)
    ELSE ErrStatusResponse(resp.status, resp.body)

delete(resp) ==
    IF DoFailed(resp) THEN DoError(resp)
    ELSE IF ReadBand(resp.status)
    THEN IF BodyLen(resp.body) > 0 THEN Ret(<<resp.body>>, <<>>) ELSE Ret(<<>>, <<>>)
    ELSE ErrStatusResponse(resp.status, resp.body)

getProject(resp) ==
    IF DoFailed(resp) THEN DoError(resp)
    ELSE IF ReadBand(resp.status)
    THEN IF BodyLen(resp.body) > 0
         THEN LET respProject == ProjectFromJSON(resp.body)
              IN IF respProject.err # <<>>
                 THEN Ret(<<>>, <<buildErrorResponse(respProject.err[1])>>)
                 ELSE Ret(<<respProject.Project>>, <<>>)
         ELSE Ret(<<>>, <<>>)
    ELSE LET e == handleErrStatusCode(resp.status, resp.body)
         IN IF e.pc = "panic" THEN Panicked ELSE Ret(<<>>, <<buildErrorResponse(e.err[1])>>)

(***************************************************************************)
(* pkg/utils (src/unnamed/part_001): the legacy executors.  They return a  *)
(* models.Error or models.Project pointer and an error; val is the first   *)
(* result.  A 2xx response is answered without reading the body.           *)
(***************************************************************************)
utils_post(resp) ==
    IF resp.kind = "transport" THEN Ret(<<>>, <<TransportError(FALSE)>>)
    ELSE IF ReadBand(resp.status) THEN Ret(<<>>, <<>>)
    ELSE IF resp.kind = "readfail" THEN Ret(<<>>, <<Msg("read", 0, "unexpected EOF")>>)
    ELSE LET respErr == ErrorFromJSON(resp.body)
         IN IF respErr.err # <<>> THEN Ret(<<>>, respErr.err)
            ELSE Ret(<<[Message |-> respErr.Message]>>, <<>>)

utils_delete(resp) ==
    IF resp.kind = "transport" THEN Ret(<<>>, <<TransportError(FALSE)>>)
    ELSE IF ReadBand(resp.status) THEN Ret(<<>>, <<>>)
    ELSE IF resp.kind = "readfail" THEN Ret(<<>>, <<Msg("read", 0, "unexpected EOF")>>)
    ELSE LET respErr == ErrorFromJSON(resp.body)
         IN IF respErr.err # <<>> THEN Ret(<<>>, respErr.err)
            ELSE Ret(<<[Message |-> respErr.Message]>>, <<>>)

utils_get(resp) ==
    IF resp.kind = "transport" THEN Ret(<<>>, <<TransportError(FALSE)>>)
    ELSE IF ReadBand(resp.status) THEN Ret(<<>>, <<>>)
    ELSE IF resp.kind = "readfail" THEN Ret(<<>>, <<Msg("read", 0, "unexpected EOF")>>)
    ELSE LET respProject == ProjectFromJSON(resp.body)
         IN IF respProject.err # <<>> THEN Ret(<<>>, respProject.err)
            ELSE Ret(<<respProject.Project>>, <<>>)

(***************************************************************************)
(* pkg/api/utils/v2: the context-aware request helpers that the v2         *)
(* handlers of src/unnamed/part_000 call.                                  *)
(***************************************************************************)
\* the error mapper: the envelope's message when there is one, the generic
\* status-code message otherwise
v2_handleErrStatusCode(statusCode, body) ==
    LET respErr == ErrorFromJSON(body)
    IN IF respErr.err = <<>> /\ respErr.Message # <<>>
       THEN buildErrorResponse(Msg("message", 0, respErr.Message[1]))
       ELSE buildErrorResponse(Msg("status", statusCode, ""))

\* GET that accepts 200 only; val is the body
getAndExpectOK(ctxDone, resp) ==
    IF resp.kind = "transport" THEN Ret(<<>>, <<buildErrorResponse(TransportError(ctxDone))>>)
    ELSE IF resp.kind = "readfail"
    THEN Ret(<<>>, <<buildErrorResponse(Msg("read", 0, "unexpected EOF"))>>)
    ELSE IF resp.status = 200 THEN Ret(<<resp.body>>, <<>>)
    ELSE IF BodyLen(resp.body) > 0
    THEN Ret(<<>>, <<v2_handleErrStatusCode(resp.status, resp.body)>>)
    ELSE Ret(<<>>, <<buildErrorResponse(UnexpectedResponse(resp.status))>>)

\* GET that accepts 200..299; val is the body
getAndExpectSuccess(ctxDone, resp) ==
    IF resp.kind = "transport" THEN Ret(<<>>, <<buildErrorResponse(TransportError(ctxDone))>>)
    ELSE IF resp.kind = "readfail"
    THEN Ret(<<>>, <<buildErrorResponse(Msg("read", 0, "unexpected EOF"))>>)
    ELSE IF ReadBand(resp.status) THEN Ret(<<resp.body>>, <<>>)
    ELSE IF BodyLen(resp.body) > 0
    THEN Ret(<<>>, <<v2_handleErrStatusCode(resp.status, resp.body)>>)
    ELSE Ret(<<>>, <<buildErrorResponse(UnexpectedResponse(resp.status))>>)

\* ProjectHandler.GetProjectWithContext (v2)
GetProjectWithContext(ctxDone, resp) ==
    LET got == getAndExpectSuccess(ctxDone, resp)
    IN IF got.err # <<>> THEN Ret(<<>>, got.err)
       ELSE LET respProject == ProjectFromJSON(got.val[1])
            IN IF respProject.err # <<>>
               THEN Ret(<<>>, <<buildErrorResponse(respProject.err[1])>>)
               ELSE Ret(<<respProject.Project>>, <<>>)

(***************************************************************************)
(* One iteration of a pagination loop, from the response on.  The result   *)
(* is what the driver returns (pc "done" or "panic"), or pc "next" with    *)
(* the accumulator and the cursor of the next iteration.                   *)
(***************************************************************************)
NextPage(acc, nextPageKey) == [pc |-> "next", acc |-> acc, nextPageKey |-> nextPageKey]

\* variant: only "0" ends the listing
LastPage_zeroOnly(nextPageKey) == nextPageKey = <<"0">>

\* received.NextPageKey == "" || received.NextPageKey == "0"
LastPage(nextPageKey) == nextPageKey = <<>> \/ nextPageKey = <<"0">>

\* ProjectHandler.GetAllProjects (pkg/api/utils), after url.Parse and NewRequest
GetAllProjects(acc, resp) ==
    IF resp.kind = "transport" THEN Ret(<<>>, <<TransportError(FALSE)>>)
    ELSE IF resp.kind = "readfail" THEN Ret(<<>>, <<Msg("read", 0, "unexpected EOF")>>)
    ELSE IF resp.status = 200
    THEN LET received == PageFromJSON(resp.body)
         IN IF received.err # <<>> THEN Ret(<<>>, received.err)
            ELSE IF LastPage(received.NextPageKey) THEN Ret(<<acc \o received.items>>, <<>>)
            ELSE NextPage(acc \o received.items, received.NextPageKey)
    ELSE handleErrStatusCode(resp.status, resp.body)

\* ProjectHandler.GetAllProjectsWithContext (v2); mErr.ToError() is the message
GetAllProjectsWithContext(ctxDone, acc, resp) ==
    LET got == getAndExpectOK(ctxDone, resp)
    IN IF got.err # <<>> THEN Ret(<<>>, <<got.err[1].Message[1]>>)
       ELSE LET received == PageFromJSON(got.val[1])
            IN IF received.err # <<>> THEN Ret(<<>>, received.err)
               ELSE IF LastPage(received.NextPageKey) THEN Ret(<<acc \o received.items>>, <<>>)
               ELSE NextPage(acc \o received.items, received.NextPageKey)

\* variant: the limit is reached only above numberOfPages
PageLimitReached_strict(numberOfPages, nextPageKey) ==
    numberOfPages > 0 /\ Atoi(nextPageKey) > numberOfPages

\* nextPageKeyInt, _ := strconv.Atoi(received.NextPageKey);
\* numberOfPages > 0 && nextPageKeyInt >= numberOfPages
PageLimitReached(numberOfPages, nextPageKey) ==
    numberOfPages > 0 /\ Atoi(nextPageKey) >= numberOfPages

\* EventHandler.getEventsWithContext (v2)
getEventsWithContext(ctxDone, numberOfPages, acc, resp) ==
    LET got == getAndExpectOK(ctxDone, resp)
    IN IF got.err # <<>> THEN Ret(<<>>, got.err)
       ELSE LET received == PageFromJSON(got.val[1])
            IN IF received.err # <<>> THEN Ret(<<>>, <<buildErrorResponse(received.err[1])>>)
               ELSE LET events == acc \o received.items
                    IN IF LastPage(received.NextPageKey) THEN Ret(<<events>>, <<>>)
                       ELSE IF PageLimitReached(numberOfPages, received.NextPageKey)
                       THEN Ret(<<events>>, <<>>)
                       ELSE NextPage(events, received.NextPageKey)

(***************************************************************************)
(* The transport builders of pkg/api/utils/apiServiceUtils.go.  The heap   *)
(* is a sequence of objects, a pointer is an index into it and 0 is nil.   *)
(* A builder takes the heap and a pointer and yields the heap after it and *)
(* the pointer it returns.                                                 *)
(***************************************************************************)
\* &http.Client{Transport: t}
Client(t) == [type |-> "Client", Transport |-> t, TLSClientConfig |-> <<>>, Proxy |-> ""]

\* &http.Transport{TLSClientConfig: tls, Proxy: proxy}
Transport(tls, proxy) ==
    [type |-> "Transport", Transport |-> 0, TLSClientConfig |-> tls, Proxy |-> proxy]

\* a http.RoundTripper of the caller's own type
CustomRoundTripper == [type |-> "custom", Transport |-> 0, TLSClientConfig |-> <<>>, Proxy |-> ""]

\* otelhttp.NewTransport(base): a new round tripper that holds base
OtelTransport(base) ==
    [type |-> "otel", Transport |-> base, TLSClientConfig |-> <<>>, Proxy |-> ""]

\* &tls.Config{InsecureSkipVerify: true}
InsecureTLS == <<[InsecureSkipVerify |-> TRUE]>>

Built(h, ret) == [heap |-> h, ret |-> ret]

\* no builder has been called
NoBuild == [fn |-> "", arg |-> 0, before |-> <<>>, ret |-> 0, n |-> 0]

wrapOtelTransport(h, base) == Built(Append(h, OtelTransport(base)), Len(h) + 1)

getClientTransport(h, rt) ==
    IF rt = 0
    THEN Built(Append(h, Transport(InsecureTLS, "ProxyFromEnvironment")), Len(h) + 1)
    ELSE IF h[rt].type = "Transport"
    THEN Built([h EXCEPT ![rt].TLSClientConfig = InsecureTLS,
                         ![rt].Proxy = "ProxyFromEnvironment"], rt)
    ELSE Built(h, rt)

createInstrumentedClientTransport(h, httpClient) ==
    IF httpClient = 0
    THEN LET tr == getClientTransport(h, 0)
             w == wrapOtelTransport(tr.heap, tr.ret)
         IN Built(Append(w.heap, Client(w.ret)), Len(w.heap) + 1)
    ELSE LET tr == getClientTransport(h, h[httpClient].Transport)
             w == wrapOtelTransport(tr.heap, tr.ret)
         IN Built([w.heap EXCEPT ![httpClient].Transport = w.ret], httpClient)

\* NewProjectHandler / NewEventHandler: the handler's client is
\* &http.Client{Transport: wrapOtelTransport(getClientTransport(nil))}
NewProjectHandler(h) ==
    LET tr == getClientTransport(h, 0)
        w == wrapOtelTransport(tr.heap, tr.ret)
    IN Built(Append(w.heap, Client(w.ret)), Len(w.heap) + 1)

\* NewAuthenticatedProjectHandler / NewAuthenticatedEventHandler: ret is the
\* HTTPClient of the handler
NewAuthenticatedProjectHandler(h, httpClient) ==
    LET h1 == IF httpClient = 0 THEN Append(h, Client(0)) ELSE h
        cl == IF httpClient = 0 THEN Len(h) + 1 ELSE httpClient
        tr == getClientTransport(h1, h1[cl].Transport)
        w == wrapOtelTransport(tr.heap, tr.ret)
    IN Built([w.heap EXCEPT ![cl].Transport = w.ret], cl)

(***************************************************************************)
(* pkg/api/utils/sequenceUtils.go                                          *)
(***************************************************************************)
SequenceControlParams(project, keptnContext, stage, state) ==
    [Project |-> project, KeptnContext |-> keptnContext, Stage |-> stage, State |-> state]

NoParams == SequenceControlParams("", "", "", "")

\* strings.Join(elems, sep), the result kept as the sequence of its pieces
RECURSIVE Join(_, _)
Join(elems, sep) ==
    IF Len(elems) = 0 THEN <<>>
    ELSE IF Len(elems) = 1 THEN elems
    ELSE <<elems[1], sep>> \o Join(Tail(elems), sep)

\* errMsg = append(errMsg, msg) when the field is empty
AppendIfEmpty(errMsg, field, msg) == IF field = "" THEN Append(errMsg, msg) ELSE errMsg

Validated(p, err) == [params |-> p, err |-> err]

NotValidated == [called |-> FALSE, err |-> <<>>]

\* variant: the stage is required as well
Validate_withStage(s) ==
    LET m1 == AppendIfEmpty(<<>>, s.Project, "project parameter not set")
        m2 == AppendIfEmpty(m1, s.KeptnContext, "keptn context parameter not set")
        m3 == AppendIfEmpty(m2, s.Stage, "stage parameter not set")
        errMsg == AppendIfEmpty(m3, s.State, "sequence state parameter not set")
        errStr == Join(errMsg, ",")
    IN IF Len(errMsg) > 0
       THEN Validated(s, <<Msg("failed to validate sequence control parameters", 0, errStr)>>)
       ELSE Validated(s, <<>>)

\* SequenceControlParams.Validate: the receiver after the call and the error
Validate(s) ==
    LET m1 == AppendIfEmpty(<<>>, s.Project, "project parameter not set")
        m2 == AppendIfEmpty(m1, s.KeptnContext, "keptn context parameter not set")
        errMsg == AppendIfEmpty(m2, s.State, "sequence state parameter not set")
        errStr == Join(errMsg, ",")
    IN IF Len(errMsg) > 0
       THEN Validated(s, <<Msg("failed to validate sequence control parameters", 0, errStr)>>)
       ELSE Validated(s, <<>>)

(***************************************************************************)
(* Operations, handlers and per-call state.                                *)
(***************************************************************************)
\* executors of pkg/api/utils/apiServiceUtils.go
ApiOps == {"putWithEventContext", "put", "postWithEventContext", "post",
           "deleteWithEventContext", "delete", "getProject"}

\* executors of pkg/utils (src/unnamed/part_001)
UtilsOps == {"utils_post", "utils_delete", "utils_get"}

SingleOps == ApiOps \cup UtilsOps \cup {"GetProjectWithContext"}

PagedOps == {"GetAllProjects", "GetAllProjectsWithContext", "GetEventsWithContext"}

RetryOp == "GetEventsWithRetryWithContext"

Ops == SingleOps \cup PagedOps \cup {RetryOp}

\* the operations that take a context.Context
CtxOps == {"GetProjectWithContext", "GetAllProjectsWithContext", "GetEventsWithContext",
           RetryOp}

\* the operations whose first statement assigns
\* http.DefaultTransport.(*http.Transport).TLSClientConfig
GlobalWriters == UtilsOps \cup {"GetAllProjects", "GetAllProjectsWithContext"}

Method(op) ==
    IF op \in {"putWithEventContext", "put"} THEN "PUT"
    ELSE IF op \in {"postWithEventContext", "post", "utils_post"} THEN "POST"
    ELSE IF op \in {"deleteWithEventContext", "delete", "utils_delete"} THEN "DELETE"
    ELSE "GET"

\* a base URL from which url.Parse and http.NewRequest build no URL
BadBaseURL == "bad host"

Handler(baseURL, authHeader, authToken) ==
    [BaseURL |-> baseURL, AuthHeader |-> authHeader, AuthToken |-> authToken,
     HTTPClient |-> "client", Scheme |-> "http"]

\* NewProjectHandler / NewEventHandler (no credentials) and the
\* NewAuthenticated...Handler constructors
Handlers ==
    {Handler("api.example", "", ""), Handler("api.example", "x-token", "secret"),
     Handler("api.example", "x-token", ""), Handler("api.example", "", "secret"),
     Handler(BadBaseURL, "x-token", "secret")}

\* url.Parse(p.Scheme + "://" + p.getBaseURL() + path), http.NewRequest(.., uri, ..)
URLParses(h) == h.BaseURL # BadBaseURL

\* variant: the header is set when either of the two is non-empty
addAuthHeader_either(h) ==
    IF h.AuthHeader # "" \/ h.AuthToken # ""
    THEN <<[name |-> h.AuthHeader, value |-> h.AuthToken]>>
    ELSE <<>>

\* the auth header of the outgoing request: nil or the pair set on it
addAuthHeader(h) ==
    IF h.AuthHeader # "" /\ h.AuthToken # ""
    THEN <<[name |-> h.AuthHeader, value |-> h.AuthToken]>>
    ELSE <<>>

\* the request an operation sends; key is the nextPageKey query parameter
Request(op, h, nextPageKey) ==
    [method |-> Method(op), contentType |-> "application/json",
     key |-> IF nextPageKey # <<>> THEN <<nextPageKey>> ELSE <<>>,
     auth |-> addAuthHeader(h)]

Delays == {"10ms", "1s"}

\* a caller before its call
Idle ==
    [pc |-> "idle", op |-> "", maxRetries |-> 0, numberOfPages |-> 0,
     retrySleepTime |-> "", ctxDone |-> FALSE, cancelPhase |-> "none", atCancel |-> <<>>,
     i |-> 0, nextPageKey |-> <<>>, acc |-> <<>>, run |-> 0,
     reqs |-> <<>>, resps |-> <<>>, bodies |-> <<>>, attempts |-> <<>>, sleeps |-> <<>>,
     val |-> <<>>, err |-> <<>>]

\* ioutil.ReadAll(resp.Body) is reached: always in pkg/api/utils, which reads
\* right after client.Do; in pkg/utils only past the return on a 2xx status
ReadsBody(op, resp) == IF op \in UtilsOps THEN ~ReadBand(resp.status) ELSE TRUE

\* the body of a response that arrived: whether ReadAll consumed it and
\* whether it is closed.  The executors of the source files close it with
\* defer, that is when the function returns; the request helpers of the v2
\* drivers have returned, and closed it, before the driver sees the body.
ResponseBody(op, resp) == [read |-> ReadsBody(op, resp), closed |-> op \in CtxOps]

\* defer resp.Body.Close() of every response of the call
RunDeferred(bodies) == [i \in DOMAIN bodies |-> [bodies[i] EXCEPT !.closed = TRUE]]

\* the operation returns (or panics, or exits the process)
Finish(s, out) ==
    [s EXCEPT !.pc = out.pc, !.val = out.val, !.err = out.err,
              !.bodies = IF out.pc = "fatal" THEN @ ELSE RunDeferred(@)]

\* client.Do(req): the request is on the wire
Send(s, h) ==
    [s EXCEPT !.pc = "inflight", !.run = @ + 1,
              !.reqs = Append(@, Request(s.op, h, s.nextPageKey))]

URLError == Msg("url", 0, "invalid character in host name")

\* EventHandler.GetEventsWithContext up to the first request: log.Fatal when
\* the URL does not parse, else getEventsWithContext starts with no cursor
GetEventsWithContext(s, h) ==
    IF ~URLParses(h) THEN Finish(s, Fatal)
    ELSE Send([s EXCEPT !.nextPageKey = <<>>, !.acc = <<>>, !.run = 0], h)

\* variant: one attempt too many (i <= maxRetries)
RetryLoop_offByOne(s, h) ==
    IF s.i <= s.maxRetries THEN GetEventsWithContext(s, h)
    ELSE Finish(s, Ret(<<>>, <<Exhausted(s.maxRetries, s.retrySleepTime)>>))

\* the head of the loop of GetEventsWithRetryWithContext: i < maxRetries
RetryLoop(s, h) ==
    IF s.i < s.maxRetries THEN GetEventsWithContext(s, h)
    ELSE Finish(s, Ret(<<>>, <<Exhausted(s.maxRetries, s.retrySleepTime)>>))

\* an operation from its entry to its first request
Enter(s, h) ==
    IF s.op \in ApiOps \cup {"GetProjectWithContext"}
    THEN IF URLParses(h) THEN Send(s, h)
         ELSE Finish(s, Ret(<<>>, <<buildErrorResponse(URLError)>>))
    ELSE IF s.op \in UtilsOps
    THEN IF URLParses(h) THEN Send(s, h) ELSE Finish(s, Panicked)
    ELSE IF s.op \in {"GetAllProjects", "GetAllProjectsWithContext"}
    THEN IF URLParses(h) THEN Send(s, h) ELSE Finish(s, Ret(<<>>, <<URLError>>))
    ELSE IF s.op = "GetEventsWithContext" THEN GetEventsWithContext(s, h)
    ELSE RetryLoop(s, h)

\* a single-request executor on its response
Execute(op, ctxDone, resp) ==
    CASE op = "putWithEventContext" -> putWithEventContext(resp)
      [] op = "put" -> put(resp)
      [] op = "postWithEventContext" -> postWithEventContext(resp)
      [] op = "post" -> post(resp)
      [] op = "deleteWithEventContext" -> deleteWithEventContext(resp)
      [] op = "delete" -> delete(resp)
      [] op = "getProject" -> getProject(resp)
      [] op = "utils_post" -> utils_post(resp)
      [] op = "utils_delete" -> utils_delete(resp)
      [] op = "utils_get" -> utils_get(resp)
      [] op = "GetProjectWithContext" -> GetProjectWithContext(ctxDone, resp)

\* one iteration of the pagination loop of s.op on its response
PageStep(s, resp) ==
    CASE s.op = "GetAllProjects" -> GetAllProjects(s.acc, resp)
      [] s.op = "GetAllProjectsWithContext" -> GetAllProjectsWithContext(s.ctxDone, s.acc, resp)
      [] OTHER -> getEventsWithContext(s.ctxDone, s.numberOfPages, s.acc, resp)

\* variant: an attempt without error is returned even when it is empty
EndAttempt_anyResult(s, out) ==
    LET events == IF out.val = <<>> THEN <<>> ELSE out.val[1]
        s1 == [s EXCEPT !.attempts = Append(@, [events |-> events, failed |-> out.err # <<>>])]
    IN IF out.err = <<>> THEN Finish(s1, Ret(<<events>>, <<>>))
       ELSE [s1 EXCEPT !.pc = "sleep"]

\* the body of the loop of GetEventsWithRetryWithContext after the attempt
\* returned: return the events, or sleep
EndAttempt(s, out) ==
    LET events == IF out.val = <<>> THEN <<>> ELSE out.val[1]
        s1 == [s EXCEPT !.attempts = Append(@, [events |-> events, failed |-> out.err # <<>>])]
    IN IF out.err = <<>> /\ Len(events) > 0 THEN Finish(s1, Ret(<<events>>, <<>>))
       ELSE [s1 EXCEPT !.pc = "sleep"]

\* the caller's code from the arrival of a response to its next request, its
\* sleep or its return
OnResponse(s, h, resp) ==
    LET s1 == [s EXCEPT !.resps = Append(@, resp),
                        !.bodies = IF resp.kind = "transport" THEN @
                                   ELSE Append(@, ResponseBody(s.op, resp))]
    IN IF s.op \in SingleOps THEN Finish(s1, Execute(s.op, s.ctxDone, resp))
       ELSE LET out == PageStep(s1, resp)
            IN IF out.pc = "next"
               THEN Send([s1 EXCEPT !.acc = out.acc, !.nextPageKey = out.nextPageKey], h)
               ELSE IF s.op = RetryOp THEN EndAttempt(s1, out)
               ELSE Finish(s1, out)

\* <-time.After(retrySleepTime) is over: i = i + 1 and the loop head
AfterSleep(s, h) ==
    RetryLoop([s EXCEPT !.sleeps = Append(@, s.retrySleepTime), !.i = @ + 1], h)

(***************************************************************************)
(* Inputs.                                                                 *)
(***************************************************************************)
\* the responses a page request is answered with
PageResponses ==
    {TransportFailure, Response("readfail", 200, EmptyBody)}
        \cup {Response("ok", 200, b) : b \in PageBodies}
        \cup {Response("ok", sc, b) : sc \in {200, 204, 500},
                                    b \in {EmptyBody, GarbageBody, EmptyObject,
                                           ErrorEnvelope("boom")}}

\* the responses a request of the retry driver is answered with
RetryResponses ==
    {TransportFailure,
     Response("ok", 200, PageEnvelope(<<>>, <<"0">>)),
     Response("ok", 200, PageEnvelope(<<1>>, <<>>)),
     Response("ok", 200, PageEnvelope(<<2, 3>>, <<"1">>))}

InputResponses ==
    [op \in Ops |->
    IF op \in SingleOps THEN Responses
    ELSE IF op \in PagedOps THEN PageResponses
    ELSE RetryResponses]

(***************************************************************************)
(* Actions.                                                                *)
(***************************************************************************)
\* caller c invokes an operation of the handler; the operation runs up to its
\* first request
Call(c, ops) ==
    /\ st[c].pc = "idle"
    /\ \E op \in ops :
       \E maxRetries \in (IF op = RetryOp THEN 0..MaxRetriesBound ELSE {0}) :
       \E numberOfPages \in (IF op = "GetEventsWithContext" THEN 0..MaxNumberOfPages
                             ELSE IF op = RetryOp THEN {0, 1} ELSE {0}) :
       \E retrySleepTime \in (IF op = RetryOp THEN Delays ELSE {""}) :
          /\ st' = [st EXCEPT ![c] =
                        Enter([Idle EXCEPT !.op = op, !.maxRetries = maxRetries,
                                           !.numberOfPages = numberOfPages,
                                           !.retrySleepTime = retrySleepTime], handler)]
          /\ DefaultTransport' =
                IF op \in GlobalWriters
                THEN [TLSClientConfig |-> <<[InsecureSkipVerify |-> TRUE, by |-> c]>>]
                ELSE DefaultTransport
    /\ UNCHANGED <<handler, heap, build, params, validation>>

\* the request of caller c is answered; a cancelled context fails the request
Receive(c, R) ==
    /\ st[c].pc = "inflight"
    /\ \E resp \in R[st[c].op] :
          /\ st[c].ctxDone => resp = TransportFailure
          /\ LET s2 == OnResponse(st[c], handler, resp)
             IN /\ s2.run <= MaxPageReqs
                /\ st' = [st EXCEPT ![c] = s2]
    /\ UNCHANGED <<DefaultTransport, handler, heap, build, params, validation>>

\* the sleep between two attempts ends
Wake(c) ==
    /\ st[c].pc = "sleep"
    /\ st' = [st EXCEPT ![c] = AfterSleep(st[c], handler)]
    /\ UNCHANGED <<DefaultTransport, handler, heap, build, params, validation>>

\* the context of a running call is cancelled
Cancel(c) ==
    /\ st[c].pc \in {"inflight", "sleep"}
    /\ st[c].op \in CtxOps
    /\ ~st[c].ctxDone
    /\ st' = [st EXCEPT ![c] =
                 [@ EXCEPT !.ctxDone = TRUE, !.cancelPhase = st[c].pc,
                           !.atCancel = <<[reqs |-> Len(st[c].reqs),
                                           sleeps |-> Len(st[c].sleeps)]>>]]
    /\ UNCHANGED <<DefaultTransport, handler, heap, build, params, validation>>

(***************************************************************************)
(* Specifications.  Spec: one caller, every operation and every input.     *)
(***************************************************************************)
Off == [Idle EXCEPT !.pc = "off"]

Init ==
    /\ st = [c \in Callers |-> IF c = 1 THEN Idle ELSE Off]
    /\ DefaultTransport = [TLSClientConfig |-> <<>>]
    /\ handler \in Handlers
    /\ heap = <<>>
    /\ build = NoBuild
    /\ params = NoParams
    /\ validation = NotValidated

Next ==
    \E c \in Callers :
        \/ Call(c, Ops)
        \/ Receive(c, InputResponses)
        \/ Wake(c)
        \/ Cancel(c)

Spec == Init /\ [][Next]_vars

(***************************************************************************)
(* SpecConc: two callers share the handler, the HTTP client and the        *)
(* process-wide default transport; their calls interleave at every request *)
(* and response.                                                           *)
(***************************************************************************)
ConcOps == {"GetAllProjects", "GetAllProjectsWithContext", "utils_post", "utils_delete",
            "utils_get", "put", "getProject"}

ConcResponses ==
    [op \in Ops |->
       {TransportFailure, Response("ok", 500, EmptyBody),
        Response("ok", 200, PageEnvelope(<<1>>, <<"0">>)),
        Response("ok", 200, PageEnvelope(<<2, 3>>, <<"1">>))}]

InitConc ==
    /\ st = [c \in Callers |-> Idle]
    /\ DefaultTransport = [TLSClientConfig |-> <<>>]
    /\ handler = Handler("api.example", "x-token", "secret")
    /\ heap = <<>>
    /\ build = NoBuild
    /\ params = NoParams
    /\ validation = NotValidated

NextConc ==
    \E c \in Callers :
        \/ Call(c, ConcOps)
        \/ Receive(c, ConcResponses)
        \/ Cancel(c)

SpecConc == InitConc /\ [][NextConc]_vars

(***************************************************************************)
(* SpecBuild: a caller holds a client and a transport of its own and calls *)
(* the transport builders and the handler constructors on them.            *)
(***************************************************************************)
Builders == {"getClientTransport", "createInstrumentedClientTransport",
             "NewProjectHandler", "NewAuthenticatedProjectHandler"}

\* what the caller has set up: nothing, a client without transport, a client
\* with a http.Transport of its own settings, a client with a custom transport
CallerHeaps ==
    {<<>>, <<Client(0)>>, <<CustomRoundTripper, Client(1)>>}
        \cup {<<Transport(tls, proxy), Client(1)>> :
                 tls \in {<<>>, <<[InsecureSkipVerify |-> FALSE]>>, InsecureTLS},
                 proxy \in {"", "ProxyFromEnvironment", "corporate proxy"}}

\* the arguments a builder can be given on heap h: nil or a pointer of the
\* parameter's type
Arguments(fn, h) ==
    IF fn = "NewProjectHandler" THEN {0}
    ELSE IF fn = "getClientTransport"
    THEN {0} \cup {a \in 1..Len(h) : h[a].type # "Client"}
    ELSE {0} \cup {a \in 1..Len(h) : h[a].type = "Client"}

Apply(fn, h, arg) ==
    CASE fn = "getClientTransport" -> getClientTransport(h, arg)
      [] fn = "createInstrumentedClientTransport" -> createInstrumentedClientTransport(h, arg)
      [] fn = "NewProjectHandler" -> NewProjectHandler(h)
      [] fn = "NewAuthenticatedProjectHandler" -> NewAuthenticatedProjectHandler(h, arg)

\* the caller calls builder fn
Build(fn) ==
    /\ build.n < MaxBuilds
    /\ \E arg \in Arguments(fn, heap) :
          LET out == Apply(fn, heap, arg)
          IN /\ heap' = out.heap
             /\ build' = [fn |-> fn, arg |-> arg, before |-> heap, ret |-> out.ret,
                          n |-> build.n + 1]
    /\ UNCHANGED <<st, DefaultTransport, handler, params, validation>>

InitBuild ==
    /\ st = [c \in Callers |-> Off]
    /\ DefaultTransport = [TLSClientConfig |-> <<>>]
    /\ handler = Handler("api.example", "", "")
    /\ heap \in CallerHeaps
    /\ build = NoBuild
    /\ params = NoParams
    /\ validation = NotValidated

NextBuild ==
    \/ Build("getClientTransport")
    \/ Build("createInstrumentedClientTransport")
    \/ Build("NewProjectHandler")
    \/ Build("NewAuthenticatedProjectHandler")

SpecBuild == InitBuild /\ [][NextBuild]_vars

(***************************************************************************)
(* SpecValidate: a caller fills in SequenceControlParams and validates     *)
(* them.                                                                   *)
(***************************************************************************)
ParamValues == {"", "sockshop", "dev"}

DoValidate ==
    /\ ~validation.called
    /\ LET out == Validate(params)
       IN /\ params' = out.params
          /\ validation' = [called |-> TRUE, err |-> out.err]
    /\ UNCHANGED <<st, DefaultTransport, handler, heap, build>>

InitValidate ==
    /\ st = [c \in Callers |-> Off]
    /\ DefaultTransport = [TLSClientConfig |-> <<>>]
    /\ handler = Handler("api.example", "", "")
    /\ heap = <<>>
    /\ build = NoBuild
    /\ params \in {SequenceControlParams(p, k, sg, se) :
                      p \in ParamValues, k \in ParamValues,
                      sg \in ParamValues, se \in ParamValues}
    /\ validation = NotValidated

NextValidate == DoValidate

SpecValidate == InitValidate /\ [][NextValidate]_vars

(***************************************************************************)
(* Properties.                                                             *)
(***************************************************************************)
\* an attempt of the retry driver is satisfactory: no error and an event
Satisfactory(a) == ~a.failed /\ Len(a.events) > 0

\* the message of a returned error, whether an error or a models.Error
ErrText(e) == IF "Message" \in DOMAIN e THEN e.Message[1] ELSE e

\* a 200 response whose body decodes as a page
GoodPage(resp) == resp.kind = "ok" /\ resp.status = 200 /\ resp.body.kind = "json"

Cursor(resp) == resp.body.nextPageKey

\* the items of the pages in arrival order
RECURSIVE ConcatItems(_)
ConcatItems(resps) ==
    IF resps = <<>> THEN <<>>
    ELSE ConcatItems(SubSeq(resps, 1, Len(resps) - 1)) \o resps[Len(resps)].body.items

\* the number a cursor denotes, 0 when it is not a decimal number
NumericValue(cursor) ==
    IF \E n \in 0..99 : Itoa(n) = cursor THEN CHOOSE n \in 0..99 : Itoa(n) = cursor ELSE 0

\* C1: when every attempt of GetEventsWithRetryWithContext is unsatisfactory,
\* the driver makes exactly maxRetries attempts (none for 0) and returns no
\* events and the exhaustion error naming maxRetries and the delay, never an
\* attempt's own error; it never makes more than maxRetries attempts.
C1_RetryExhaustion ==
    \A c \in Callers :
        LET s == st[c]
        IN s.op = RetryOp =>
              /\ Len(s.attempts) <= s.maxRetries
              /\ (s.pc = "done"
                  /\ \A k \in 1..Len(s.attempts) : ~Satisfactory(s.attempts[k]))
                 => /\ Len(s.attempts) = s.maxRetries
                    /\ s.val = <<>>
                    /\ s.err = <<Exhausted(s.maxRetries, s.retrySleepTime)>>

\* three attempts, one failed and one empty among them, then exhaustion
C1_Witness ==
    \E c \in Callers :
        LET s == st[c]
        IN /\ s.op = RetryOp /\ s.pc = "done" /\ s.maxRetries = 3
           /\ Len(s.attempts) = 3
           /\ \E k \in 1..3 : s.attempts[k].failed
           /\ \E k \in 1..3 : ~s.attempts[k].failed /\ s.attempts[k].events = <<>>
           /\ s.err # <<>> /\ s.err[1].kind = "exhausted"

\* C2: the retry driver returns at the first satisfactory attempt and only
\* there: after m unsatisfactory attempts and a satisfactory attempt m+1 it
\* has returned exactly the events of attempt m+1 and no error, after m+1
\* attempts and m sleeps of the fixed delay; an empty attempt is never what
\* it returns without error.
C2_RetrySuccess ==
    \A c \in Callers :
        LET s == st[c]
            n == Len(s.attempts)
        IN s.op = RetryOp =>
              /\ \A k \in 1..n :
                    Satisfactory(s.attempts[k]) =>
                       /\ k = n /\ k <= s.maxRetries
                       /\ s.pc = "done" /\ s.err = <<>>
                       /\ s.val = <<s.attempts[k].events>>
                       /\ Len(s.sleeps) = k - 1
                       /\ \A j \in 1..Len(s.sleeps) : s.sleeps[j] = s.retrySleepTime
              /\ (s.pc = "done" /\ s.err = <<>>) => (n >= 1 /\ Satisfactory(s.attempts[n]))
              /\ (n >= 1 /\ ~Satisfactory(s.attempts[n]) /\ s.pc # "done")
                 => s.pc \in {"sleep", "inflight", "fatal"}

\* two empty attempts, then an attempt with events
C2_Witness ==
    \E c \in Callers :
        LET s == st[c]
        IN /\ s.op = RetryOp /\ s.pc = "done" /\ Len(s.attempts) = 3
           /\ \A k \in 1..2 : ~s.attempts[k].failed /\ s.attempts[k].events = <<>>
           /\ s.attempts[3].events = <<2, 3, 1>>
           /\ s.val = <<<<2, 3, 1>>>> /\ s.err = <<>>
           /\ Len(s.sleeps) = 2

\* C3: a cancellation while a request of the retry driver is in flight or
\* while it sleeps makes it return a cancellation error, with no further
\* request and no further completed sleep.
C3_CancellationAborts ==
    \A c \in Callers :
        LET s == st[c]
        IN (s.op = RetryOp /\ s.pc = "done" /\ s.cancelPhase \in {"inflight", "sleep"})
           => /\ s.err # <<>>
              /\ ErrText(s.err[1]).text = "context canceled"
              /\ Len(s.reqs) = s.atCancel[1].reqs
              /\ Len(s.sleeps) = s.atCancel[1].sleeps

\* C4: a pagination driver without page limit sends its first request
\* without nextPageKey and each later one with the cursor of the page before,
\* sends no request after a page whose cursor is "" or "0", and, once such a
\* page arrived after good pages only, has returned the concatenation of all
\* pages' items in arrival order with as many requests as pages.
C4_Pagination ==
    \A c \in Callers :
        LET s == st[c]
            n == Len(s.resps)
        IN (s.op \in PagedOps /\ s.numberOfPages = 0) =>
              /\ Len(s.reqs) >= 1 => s.reqs[1].key = <<>>
              /\ \A i \in 2..Len(s.reqs) :
                    /\ GoodPage(s.resps[i - 1])
                    /\ Cursor(s.resps[i - 1]) \notin {<<>>, <<"0">>}
                    /\ s.reqs[i].key = <<Cursor(s.resps[i - 1])>>
              /\ (n >= 1 /\ \A i \in 1..n : GoodPage(s.resps[i])) =>
                    IF Cursor(s.resps[n]) \in {<<>>, <<"0">>}
                    THEN /\ s.pc = "done" /\ s.err = <<>>
                         /\ Len(s.reqs) = n
                         /\ s.val = <<ConcatItems(s.resps)>>
                    ELSE s.pc = "inflight" /\ Len(s.reqs) = n + 1

\* GetAllProjects over three pages
C4_Witness ==
    \E c \in Callers :
        LET s == st[c]
        IN /\ s.op = "GetAllProjects" /\ s.pc = "done" /\ s.err = <<>>
           /\ Len(s.reqs) = 3 /\ Len(s.resps) = 3
           /\ s.reqs[2].key = <<<<"2">>>> /\ s.reqs[3].key = <<<<"x">>>>
           /\ Cursor(s.resps[3]) = <<"0">>
           /\ s.val = <<<<2, 3, 1, 2, 3>>>>

\* C5: with a page limit k > 0, getEventsWithContext stops after the first
\* page whose cursor is "" or "0" or denotes a number >= k, and not before (a
\* non-numeric cursor counts as 0); with the cursors "1", "2", ... it has made
\* exactly k requests.
C5_PageLimit ==
    \A c \in Callers :
        LET s == st[c]
            n == Len(s.resps)
            k == s.numberOfPages
            Stops(cursor) == cursor \in {<<>>, <<"0">>} \/ NumericValue(cursor) >= k
        IN (s.op = "GetEventsWithContext" /\ k > 0
            /\ n >= 1 /\ \A i \in 1..n : GoodPage(s.resps[i])) =>
              /\ \A i \in 1..(n - 1) : ~Stops(Cursor(s.resps[i]))
              /\ IF Stops(Cursor(s.resps[n]))
                 THEN /\ s.pc = "done" /\ s.err = <<>>
                      /\ Len(s.reqs) = n
                      /\ s.val = <<ConcatItems(s.resps)>>
                 ELSE s.pc = "inflight" /\ Len(s.reqs) = n + 1
              /\ (s.pc = "done" /\ \A i \in 1..n : Cursor(s.resps[i]) = Itoa(i))
                 => Len(s.reqs) = k

\* limit 2: a non-numeric cursor does not stop the run, the cursor "2" does
C5_Witness ==
    \E c \in Callers :
        LET s == st[c]
        IN /\ s.op = "GetEventsWithContext" /\ s.numberOfPages = 2
           /\ s.pc = "done" /\ s.err = <<>>
           /\ Len(s.reqs) = 2 /\ Len(s.resps) = 2
           /\ Cursor(s.resps[1]) \in {<<"1">>, <<"x">>}
           /\ Cursor(s.resps[2]) = <<"2">>

\* C6: when a page request of a pagination run fails (transport error, body
\* read error, status other than 200 or undecodable body), the driver has
\* returned nil and the error, and has sent no further request.
C6_NoPartialResults ==
    \A c \in Callers :
        LET s == st[c]
            n == Len(s.resps)
        IN (s.op \in PagedOps /\ n >= 1 /\ ~GoodPage(s.resps[n])) =>
              /\ s.pc = "done"
              /\ s.val = <<>> /\ s.err # <<>>
              /\ Len(s.reqs) = n

\* a response outside the success band of op
ErrorStatus(op, status) ==
    IF op \in {"putWithEventContext", "put", "postWithEventContext", "post"}
    THEN ~(status >= 200 /\ status <= 204)
    ELSE IF op \in PagedOps THEN status # 200
    ELSE ~(status >= 200 /\ status < 300)

\* C7: on a non-success response whose body is empty, not JSON or JSON
\* without a message, the executors that map the body with
\* handleErrStatusCode return the generic error carrying the status code,
\* and do not panic.
C7_GenericStatusError ==
    \A c \in Callers :
        LET s == st[c]
            n == Len(s.resps)
        IN (s.op \in ApiOps \cup {"GetAllProjects"} /\ n >= 1
            /\ s.resps[n].kind = "ok" /\ ErrorStatus(s.op, s.resps[n].status)
            /\ (s.resps[n].body.kind # "json" \/ s.resps[n].body.message = <<>>)) =>
              /\ s.pc = "done"
              /\ s.err # <<>>
              /\ ErrText(s.err[1]).kind \in {"status", "unexpected response"}
              /\ ErrText(s.err[1]).code = s.resps[n].status

\* the outcome that shows how the last response was classified: the call
\* went on or returned without error
TakenAsSuccess(s) == s.pc \in {"done", "inflight"} /\ s.err = <<>>

\* the responses on which the classification alone decides the outcome: an
\* empty body for the single-request executors, a JSON body with a message
\* (it decodes as a page and as an error envelope) for GetAllProjects
ShowsClassification(s) ==
    /\ s.op \in ApiOps \cup UtilsOps \cup {"GetAllProjects"}
    /\ Len(s.resps) >= 1
    /\ LET resp == s.resps[Len(s.resps)]
       IN /\ resp.kind = "ok"
          /\ IF s.op \in SingleOps THEN resp.body = EmptyBody
             ELSE resp.body.kind = "json" /\ resp.body.message # <<>>

\* C8 as stated: POST and PUT executors take exactly 200..204 as success,
\* GET and DELETE executors exactly 200..299.
C8_MethodBands ==
    \A c \in Callers :
        LET s == st[c]
            status == s.resps[Len(s.resps)].status
        IN ShowsClassification(s) =>
              (TakenAsSuccess(s) <=>
                  IF Method(s.op) \in {"POST", "PUT"} THEN status >= 200 /\ status <= 204
                  ELSE status >= 200 /\ status < 300)

\* C8 amended: put, post, putWithEventContext and postWithEventContext of
\* pkg/api/utils take exactly 200..204 as success; delete,
\* deleteWithEventContext, getProject and the legacy post, delete and get of
\* pkg/utils exactly 200..299; the paginated GetAllProjects exactly 200.
C8_BandsPerExecutor ==
    \A c \in Callers :
        LET s == st[c]
        IN ShowsClassification(s) =>
              (TakenAsSuccess(s) <=> ~ErrorStatus(s.op, s.resps[Len(s.resps)].status))

\* post answers 205 with an error
C8_Witness ==
    \E c \in Callers :
        LET s == st[c]
        IN /\ s.op = "post" /\ ShowsClassification(s)
           /\ s.resps[1].status = 205
           /\ s.pc = "done" /\ s.err # <<>>
           /\ ErrText(s.err[1]).kind = "unexpected response"

\* C9: a response in the operation's success band with an empty body is
\* answered with empty success: no error, and no value from a
\* single-request executor (the executors of pkg/api/utils and pkg/utils and
\* the paginated GetAllProjects).
C9_EmptySuccess ==
    \A c \in Callers :
        LET s == st[c]
            n == Len(s.resps)
        IN (s.op \in ApiOps \cup UtilsOps \cup {"GetAllProjects"}
            /\ n >= 1 /\ s.resps[n].kind = "ok"
            /\ ~ErrorStatus(s.op, s.resps[n].status) /\ s.resps[n].body = EmptyBody) =>
              /\ s.pc = "done"
              /\ s.err = <<>>
              /\ s.op \in SingleOps => s.val = <<>>

\* C10: no step of any caller changes the process-wide default transport
\* configuration or the handler (credentials and HTTP client).
C10_NoSharedWrites ==
    [][DefaultTransport' = DefaultTransport /\ handler' = handler]_vars

\* the executors whose request building is in the source files
BuiltHere == ApiOps \cup UtilsOps \cup {"GetAllProjects"}

\* C11: every request an executor sends carries the auth header, named by
\* the handler's header name and holding exactly the token, when both are
\* non-empty, and no auth header when either is empty; with either empty the
\* request is still sent and the call does not fail for the lack of it.
C11_AuthHeader ==
    \A c \in Callers :
        LET s == st[c]
            both == handler.AuthHeader # "" /\ handler.AuthToken # ""
        IN s.op \in BuiltHere =>
              /\ \A i \in 1..Len(s.reqs) :
                    IF both
                    THEN /\ Len(s.reqs[i].auth) = 1
                         /\ s.reqs[i].auth[1].name = handler.AuthHeader
                         /\ s.reqs[i].auth[1].value = handler.AuthToken
                    ELSE s.reqs[i].auth = <<>>
              /\ (~both /\ handler.BaseURL = "api.example") =>
                    /\ Len(s.reqs) >= 1
                    /\ (s.pc = "done" /\ s.resps[Len(s.resps)].kind = "ok"
                        /\ ~ErrorStatus(s.op, s.resps[Len(s.resps)].status)
                        /\ s.resps[Len(s.resps)].body = ContextEnvelope("ctx-1"))
                       => s.err = <<>>

\* a header name without token: the request went out bare and succeeded
C11_Witness ==
    \E c \in Callers :
        LET s == st[c]
        IN /\ s.op = "postWithEventContext" /\ s.pc = "done" /\ s.err = <<>>
           /\ handler.AuthHeader = "x-token" /\ handler.AuthToken = ""
           /\ Len(s.reqs) = 1 /\ s.reqs[1].auth = <<>>
           /\ s.val # <<>>

\* the executors that decode a success body as a models.EventContext
EventContextOps == {"putWithEventContext", "postWithEventContext", "deleteWithEventContext"}

\* C12: when the status is in the success band and the non-empty body does
\* not decode as the operation's shape, the event-context executors and the
\* single-project read getProject return no value and an error whose message
\* holds both the decode error text and the raw body.
C12_DecodeErrorEmbedsBody ==
    \A c \in Callers :
        LET s == st[c]
            n == Len(s.resps)
        IN (s.op \in EventContextOps \cup {"getProject"} /\ n >= 1
            /\ s.resps[n].kind = "ok" /\ ~ErrorStatus(s.op, s.resps[n].status)
            /\ s.resps[n].body = GarbageBody) =>
              /\ s.pc = "done"
              /\ s.val = <<>> /\ s.err # <<>>
              /\ ErrText(s.err[1]).kind = "decode+details"
              /\ ErrText(s.err[1]).text[1] = "invalid character"
              /\ ErrText(s.err[1]).text[2] = GarbageBody

\* C13: on a non-success response whose body decodes as the error envelope
\* with a message, put, post, delete and their event-context variants return
\* no value and an error whose message is the envelope's message itself, with
\* no status code and no other text around it.
C13_MessageExact ==
    \A c \in Callers :
        LET s == st[c]
            n == Len(s.resps)
        IN (s.op \in ApiOps \ {"getProject"} /\ n >= 1
            /\ s.resps[n].kind = "ok" /\ ErrorStatus(s.op, s.resps[n].status)
            /\ s.resps[n].body.kind = "json" /\ s.resps[n].body.message # <<>>) =>
              /\ s.pc = "done"
              /\ s.err # <<>>
              /\ s.err[1].Message # <<>>
              /\ s.err[1].Message[1].kind = "message"
              /\ s.err[1].Message[1].code = 0
              /\ s.err[1].Message[1].text = s.resps[n].body.message[1]

\* delete answered with 404 and {"message": "not found"}
C13_Witness ==
    \E c \in Callers :
        LET s == st[c]
        IN /\ s.op = "delete" /\ s.pc = "done"
           /\ s.resps = <<Response("ok", 404, ErrorEnvelope("not found"))>>
           /\ s.err # <<>> /\ s.err[1].Message[1].text = "not found"

\* C14: a transport builder or handler constructor leaves every object the
\* caller held before the call as it was (the client's Transport, the
\* transport's TLS and proxy settings, whatever the transport's type), and
\* what it returns is a new object.
C14_BuilderNoSideEffects ==
    build.fn # "" =>
       /\ \A a \in 1..Len(build.before) : heap[a] = build.before[a]
       /\ build.ret > Len(build.before)

\* C15: when an operation has returned, the body of every response it
\* received (on success, error status, decode failure, read failure, and in
\* every iteration of a pagination loop) has been read and is closed.
C15_BodiesReadAndClosed ==
    \A c \in Callers :
        LET s == st[c]
        IN (s.op \in BuiltHere /\ s.pc = "done") =>
              /\ Len(s.bodies) = Cardinality({i \in 1..Len(s.resps) : s.resps[i].kind # "transport"})
              /\ \A i \in 1..Len(s.bodies) : s.bodies[i].read /\ s.bodies[i].closed

\* C16: no operation exits the process or panics, and an operation on a base
\* URL from which no URL or request can be built has returned an error
\* without sending a request.
C16_ErrorsReturned ==
    \A c \in Callers :
        LET s == st[c]
        IN /\ s.pc \notin {"fatal", "panic"}
           /\ (s.op \in Ops /\ handler.BaseURL = BadBaseURL) =>
                 /\ s.pc = "done"
                 /\ s.err # <<>>
                 /\ s.reqs = <<>>

\* C17: the retry driver sleeps only between two attempts: it never sleeps
\* after attempt maxRetries, and a run that has returned after a >= 1
\* attempts has slept exactly a - 1 times, each time for the fixed delay.
C17_SleepsBetweenAttempts ==
    \A c \in Callers :
        LET s == st[c]
            a == Len(s.attempts)
        IN s.op = RetryOp =>
              /\ s.pc = "sleep" => a < s.maxRetries
              /\ \A j \in 1..Len(s.sleeps) : s.sleeps[j] = s.retrySleepTime
              /\ (s.pc = "done" /\ a >= 1) => Len(s.sleeps) = a - 1

\* C18: with a page limit k > 0, getEventsWithContext sends at most k page
\* requests, whatever cursors the server returns.
C18_AtMostKRequests ==
    \A c \in Callers :
        LET s == st[c]
        IN (s.op = "GetEventsWithContext" /\ s.numberOfPages > 0) =>
              Len(s.reqs) <= s.numberOfPages

\* the parts of a joined message that are not the separator
Phrases(errStr) == SelectSeq(errStr, LAMBDA x : x # ",")

\* C19: Validate returns an error exactly when Project, KeptnContext or
\* State is empty (an empty Stage is accepted); the message names each unset
\* parameter once, in the order project, keptn context, sequence state,
\* separated by commas; and a step of Validate changes neither the
\* parameters nor anything of the request pipeline.
C19_Validate ==
    /\ [](validation.called =>
            LET unset == (IF params.Project = "" THEN <<"project parameter not set">>
                          ELSE <<>>)
                         \o (IF params.KeptnContext = ""
                             THEN <<"keptn context parameter not set">> ELSE <<>>)
                         \o (IF params.State = ""
                             THEN <<"sequence state parameter not set">> ELSE <<>>)
            IN /\ validation.err # <<>>
                    <=> (params.Project = "" \/ params.KeptnContext = "" \/ params.State = "")
               /\ validation.err # <<>> =>
                    /\ Phrases(validation.err[1].text) = unset
                    /\ Len(validation.err[1].text) = 2 * Len(unset) - 1)
    /\ [][validation'.called =>
             /\ params' = params
             /\ UNCHANGED <<st, DefaultTransport, handler, heap>>]_vars

\* project and state unset, stage unset too: two parameters are named
C19_Witness ==
    /\ validation.called
    /\ params = SequenceControlParams("", "sockshop", "", "")
    /\ validation.err # <<>>
    /\ validation.err[1].text =
          <<"project parameter not set", ",", "sequence state parameter not set">>

====
